---- MODULE Spec2Model ----
(***************************************************************************)
(* Model of src/main.py: the paginated ArcGIS client                       *)
(* (ArcGISPaginatedClient.get_object_ids / get_features_by_ids), the       *)
(* "Load Madison Tree Data" button handler that sequences them and writes  *)
(* the session cache, and process_geojson_data.                            *)
(*                                                                         *)
(* The remote service is the environment: every response (its kind and     *)
(* its content) is a nondeterministic choice.  The requests issued, the    *)
(* responses received, the delays slept and the messages shown are kept    *)
(* as history so that properties of a whole call can be stated.            *)
(*                                                                         *)
(* Specifications:                                                         *)
(*   Spec      the button handler end to end; the service pages by the     *)
(*             protocol but any request may fail or come back malformed    *)
(*   SpecIds   get_object_ids called on its own, against a service that    *)
(*             may also ignore resultOffset and resultRecordCount          *)
(*   SpecFeat  get_features_by_ids called on its own with any identifier   *)
(*             list, against a service that may also drop features         *)
(*   SpecProc  process_geojson_data inside the module-level processing     *)
(*             block, on any feature collection                            *)
(*   SpecRadius  calculate_protection_radius applied to the diameter       *)
(*             column of filtered_df                                       *)
(*   SpecTerm  get_object_ids against a service of finite size that        *)
(*             answers from the requested offset, with fairness            *)
(*   SpecDelay the handler with batch sizes 1 and enough identifiers for   *)
(*             more than ten pages and ten chunks                          *)
(***************************************************************************)
EXTENDS Integers, Sequences, FiniteSets, TLC

\* ---------------------------------------------------------------- bounds
\* batch_size (parameter of get_object_ids) ranges over 1..MaxBatch
MaxBatch == 3
\* FEATURE_BATCH_SIZE ranges over 1..MaxChunk
MaxChunk == 2
\* the service holds at most MaxIds identifiers, and no call accumulates or
\* is given more
MaxIds == 4
\* the service of SpecDelay holds MaxPages identifiers, one per page and chunk
MaxPages == 11
\* process_geojson_data is given at most MaxFeatures features
MaxFeatures == 2
\* diameters are multiples of 1/Resolution inch, up to MaxDiameter inches,
\* in a column of at most MaxRows rows
Resolution == 2
MaxDiameter == 8
MaxRows == 2

VARIABLES
    pc,                 \* position of the script / of the running call
    local_file_loaded,  \* main.py:71-85
    session_state,      \* st.session_state['geojson_data']: [present, features]
    geojson_data,       \* module-level geojson_data: [present, features]
    batch_size,         \* get_object_ids parameter
    FEATURE_BATCH_SIZE, \* main.py:92, kept symbolic (1..MaxChunk)
    service_size,       \* the number of identifiers the remote service holds
    all_object_ids, offset, batch_count,   \* locals of get_object_ids
    object_ids,         \* the caller's object_ids (result of get_object_ids)
    id_chunks, i, all_features,            \* locals of get_features_by_ids
    madison_data,       \* the handler's result of get_features_by_ids
    features, feature_idx, df,             \* process_geojson_data and its result
    filtered_df,        \* the processing block's filtered_df: diameter and radius columns
    idReqs,             \* history: resultOffset of every identifier request
    idResps,            \* history: the response to every identifier request
    featReqs,           \* history: the chunk of every feature request
    featResps,          \* history: the response to every feature request
    events,             \* history: requests and sleeps in program order
    progress,           \* history: values given to progress_bar.progress
    ui,                 \* history: st.error / st.warning / st.success shown
    cache_before        \* history: the session cache when the run began

clientVars == <<all_object_ids, offset, batch_count, id_chunks, i, all_features>>
handlerVars == <<local_file_loaded, session_state, geojson_data, object_ids, madison_data>>
paramVars == <<batch_size, FEATURE_BATCH_SIZE, service_size>>
procVars == <<features, feature_idx, df, filtered_df>>
histVars == <<idReqs, idResps, featReqs, featResps, events, progress, ui, cache_before>>
vars == <<pc, clientVars, handlerVars, paramVars, procVars, histVars>>

\* ------------------------------------------------------------- helpers
Min(a, b) == IF a <= b THEN a ELSE b

\* The identifier the service holds at position p (1-based); identifiers are
\* opaque integers, distinct per position.
IdAt(p) == 100 + 7 * p

\* The identifiers at positions s+1 .. s+k of the service's dataset.
Slice(s, k) == [j \in 1..k |-> IdAt(s + j)]

\* The feature the service holds for an identifier.
Feature(id) == [OBJECTID |-> id]

NoData == [present |-> FALSE, features |-> <<>>]
Collection(fs) == [present |-> TRUE, features |-> fs]
NoFrame == [made |-> FALSE, rows |-> <<>>]

\* Data already in the session when the button is pressed (the local file
\* loaded at start, an earlier retrieval or an upload).
PriorData == {Collection(<<>>), Collection(<<Feature(IdAt(0))>>)}

\* The state of everything no call has touched yet.
Untouched ==
    /\ all_object_ids = <<>> /\ offset = 0 /\ batch_count = 0
    /\ id_chunks = <<>> /\ i = 0 /\ all_features = <<>>
    /\ madison_data = NoData
    /\ features = <<>> /\ feature_idx = 0 /\ df = NoFrame
    /\ idReqs = <<>> /\ idResps = <<>> /\ featReqs = <<>> /\ featResps = <<>>
    /\ events = <<>> /\ progress = <<>> /\ ui = <<>>
    /\ cache_before = session_state

\* ---------------------------------------------------------------- Init
\* The script has run down to the button; the session holds the local file's
\* data when one was found, and nothing otherwise.
Init ==
    /\ pc = "idle"
    /\ local_file_loaded \in BOOLEAN
    /\ session_state \in (IF local_file_loaded THEN PriorData ELSE {NoData})
    /\ geojson_data = session_state
    /\ batch_size \in 1..MaxBatch
    /\ FEATURE_BATCH_SIZE \in 1..MaxChunk
    /\ service_size = MaxIds
    /\ object_ids = <<>>
    /\ filtered_df = <<>>
    /\ Untouched

\* ------------------------------------------------- get_object_ids
\* Mutant: pressing the button first empties the session cache.
ClickLoad_ClearsCache ==
    /\ pc = "idle"
    /\ all_object_ids' = <<>> /\ offset' = 0 /\ batch_count' = 0
    /\ session_state' = NoData
    /\ pc' = "ids_top"
    /\ UNCHANGED <<id_chunks, i, all_features, local_file_loaded, geojson_data,
                   object_ids, madison_data, paramVars, procVars, histVars>>

\* The button is pressed: the client is built and get_object_ids is called.
ClickLoad ==
    /\ pc = "idle"
    /\ all_object_ids' = <<>> /\ offset' = 0 /\ batch_count' = 0
    /\ pc' = "ids_top"
    /\ UNCHANGED <<id_chunks, i, all_features, handlerVars, paramVars, procVars, histVars>>

\* Top of the while loop: the request for the current offset is sent.
IdsIssueRequest ==
    /\ pc = "ids_top"
    /\ idReqs' = Append(idReqs, offset)
    /\ events' = Append(events, "ids_request")
    /\ pc' = "ids_await"
    /\ UNCHANGED <<clientVars, handlerVars, paramVars, procVars,
                   idResps, featReqs, featResps, progress, ui, cache_before>>

\* Mutant: the loop also stops on a page of exactly batch_size identifiers.
IdsAfterPage_StopOnFull(batch_ids) ==
    /\ all_object_ids' = all_object_ids \o batch_ids
    /\ IF Len(batch_ids) <= batch_size
         THEN /\ pc' = "ids_done"
              /\ UNCHANGED <<offset, batch_count>>
         ELSE /\ offset' = offset + Len(batch_ids)
              /\ batch_count' = batch_count + 1
              /\ pc' = "ids_sleep"

\* Mutant: the offset advances by batch_size, whatever the page held.
IdsAfterPage_AdvanceByBatch(batch_ids) ==
    /\ all_object_ids' = all_object_ids \o batch_ids
    /\ IF Len(batch_ids) < batch_size
         THEN /\ pc' = "ids_done"
              /\ UNCHANGED <<offset, batch_count>>
         ELSE /\ offset' = offset + batch_size
              /\ batch_count' = batch_count + 1
              /\ pc' = "ids_sleep"

\* Mutant: a short page does not end the loop; only an empty one does.
IdsAfterPage_NoShortBreak(batch_ids) ==
    /\ all_object_ids' = all_object_ids \o batch_ids
    /\ offset' = offset + Len(batch_ids)
    /\ batch_count' = batch_count + 1
    /\ pc' = "ids_sleep"

\* What the loop does with a page of at least one identifier.
IdsAfterPage(batch_ids) ==
    /\ all_object_ids' = all_object_ids \o batch_ids
    /\ IF Len(batch_ids) < batch_size
         THEN /\ pc' = "ids_done"
              /\ UNCHANGED <<offset, batch_count>>
         ELSE /\ offset' = offset + Len(batch_ids)
              /\ batch_count' = batch_count + 1
              /\ pc' = "ids_sleep"

\* A 2xx response whose objectIds is the non-empty list of k identifiers
\* found from position start on.
IdsReceive(start, k) ==
    /\ pc = "ids_await"
    /\ Len(all_object_ids) + k <= service_size
    /\ idResps' = Append(idResps, [kind |-> "ok", ids |-> Slice(start, k)])
    /\ IdsAfterPage(Slice(start, k))
    /\ UNCHANGED <<id_chunks, i, all_features, handlerVars, paramVars, procVars,
                   idReqs, featReqs, featResps, events, progress, ui, cache_before>>

\* The service pages by the protocol: from resultOffset, at most
\* resultRecordCount identifiers.
IdsPage == \E k \in 1..batch_size : IdsReceive(offset, k)

\* The service ignores resultOffset (it starts over) or resultRecordCount
\* (it sends one identifier too many).
IdsRoguePage ==
    \E start \in {0, offset}, k \in 1..(batch_size + 1) :
        /\ start # offset \/ k > batch_size
        /\ IdsReceive(start, k)

\* A 2xx response whose objectIds is absent, null or empty: break.
IdsNoIds ==
    /\ pc = "ids_await"
    /\ \E kind \in {"ok", "nokey"} :
         idResps' = Append(idResps, [kind |-> kind, ids |-> <<>>])
    /\ pc' = "ids_done"
    /\ UNCHANGED <<clientVars, handlerVars, paramVars, procVars,
                   idReqs, featReqs, featResps, events, progress, ui, cache_before>>

\* Mutant: a failed request is tried again instead of ending the loop.
IdsRequestException_Retry ==
    /\ pc = "ids_await"
    /\ idResps' = Append(idResps, [kind |-> "request_exception", ids |-> <<>>])
    /\ ui' = Append(ui, "error:ids_fetch")
    /\ pc' = "ids_top"
    /\ UNCHANGED <<clientVars, handlerVars, paramVars, procVars,
                   idReqs, featReqs, featResps, events, progress, cache_before>>

\* Mutant: a failed request throws the accumulated identifiers away.
IdsRequestException_Drop ==
    /\ pc = "ids_await"
    /\ idResps' = Append(idResps, [kind |-> "request_exception", ids |-> <<>>])
    /\ ui' = Append(ui, "error:ids_fetch")
    /\ all_object_ids' = <<>>
    /\ pc' = "ids_done"
    /\ UNCHANGED <<offset, batch_count, id_chunks, i, all_features, handlerVars,
                   paramVars, procVars,
                   idReqs, featReqs, featResps, events, progress, cache_before>>

\* requests.exceptions.RequestException (network, timeout, non-2xx): break.
IdsRequestException ==
    /\ pc = "ids_await"
    /\ idResps' = Append(idResps, [kind |-> "request_exception", ids |-> <<>>])
    /\ ui' = Append(ui, "error:ids_fetch")
    /\ pc' = "ids_done"
    /\ UNCHANGED <<clientVars, handlerVars, paramVars, procVars,
                   idReqs, featReqs, featResps, events, progress, cache_before>>

\* The service answers with identifiers from resultOffset on, as many as it
\* likes of those it still holds (resultRecordCount may be exceeded).
IdsBoundedPage ==
    \E k \in 1..(service_size - offset) : IdsReceive(offset, k)

\* Any other exception while reading the response: break.
IdsOtherException ==
    /\ pc = "ids_await"
    /\ idResps' = Append(idResps, [kind |-> "exception", ids |-> <<>>])
    /\ ui' = Append(ui, "error:ids_processing")
    /\ pc' = "ids_done"
    /\ UNCHANGED <<clientVars, handlerVars, paramVars, procVars,
                   idReqs, featReqs, featResps, events, progress, cache_before>>

\* time.sleep after a full page, then back to the top of the loop.
IdsSleep ==
    /\ pc = "ids_sleep"
    /\ events' = Append(events, IF batch_count % 10 = 0 THEN "sleep5" ELSE "sleep1")
    /\ pc' = "ids_top"
    /\ UNCHANGED <<clientVars, handlerVars, paramVars, procVars,
                   idReqs, idResps, featReqs, featResps, progress, ui, cache_before>>

\* return all_object_ids, received by the caller as object_ids.
IdsReturn ==
    /\ pc = "ids_done"
    /\ object_ids' = all_object_ids
    /\ pc' = "ids_returned"
    /\ UNCHANGED <<clientVars, local_file_loaded, session_state, geojson_data,
                   madison_data, paramVars, procVars, histVars>>

\* ------------------------------------------------- the button handler
\* Mutant: no identifiers is answered with an empty FeatureCollection that
\* is stored like a fetched one.
HandlerNoIds_StoreEmpty ==
    /\ pc = "ids_returned"
    /\ object_ids = <<>>
    /\ ui' = Append(ui, "warning:no_object_ids")
    /\ session_state' = Collection(<<>>)
    /\ geojson_data' = Collection(<<>>)
    /\ pc' = "done"
    /\ UNCHANGED <<clientVars, local_file_loaded, object_ids, madison_data, paramVars,
                   procVars, idReqs, idResps, featReqs, featResps, events, progress,
                   cache_before>>

\* `if not object_ids`: a warning, nothing else.
HandlerNoIds ==
    /\ pc = "ids_returned"
    /\ object_ids = <<>>
    /\ ui' = Append(ui, "warning:no_object_ids")
    /\ pc' = "done"
    /\ UNCHANGED <<clientVars, handlerVars, paramVars, procVars,
                   idReqs, idResps, featReqs, featResps, events, progress, cache_before>>

\* else: get_features_by_ids(object_ids) is called.
HandlerFetchFeatures ==
    /\ pc = "ids_returned"
    /\ object_ids # <<>>
    /\ pc' = "feat_call"
    /\ UNCHANGED <<clientVars, handlerVars, paramVars, procVars, histVars>>

\* ------------------------------------------------- get_features_by_ids
\* Mutant: the slice end is one too far, so neighbouring chunks overlap.
IdChunks_Overlap(ids, C) ==
    [c \in 1..((Len(ids) + C - 1) \div C) |->
        SubSeq(ids, (c - 1) * C + 1, Min(c * C + 1, Len(ids)))]

\* id_chunks: contiguous slices of size C.
IdChunks(ids, C) ==
    [c \in 1..((Len(ids) + C - 1) \div C) |->
        SubSeq(ids, (c - 1) * C + 1, Min(c * C, Len(ids)))]

\* Entry of get_features_by_ids: the chunks are built.
FeatStart ==
    /\ pc = "feat_call"
    /\ id_chunks' = IdChunks(object_ids, FEATURE_BATCH_SIZE)
    /\ all_features' = <<>>
    /\ i' = 0
    /\ pc' = "feat_top"
    /\ UNCHANGED <<all_object_ids, offset, batch_count, handlerVars, paramVars,
                   procVars, histVars>>

\* Loop head with a chunk left: the request for chunk i (0-based) is sent.
FeatIssueRequest ==
    /\ pc = "feat_top"
    /\ i < Len(id_chunks)
    /\ featReqs' = Append(featReqs, id_chunks[i + 1])
    /\ events' = Append(events, "feat_request")
    /\ pc' = "feat_await"
    /\ UNCHANGED <<clientVars, handlerVars, paramVars, procVars,
                   idReqs, idResps, featResps, progress, ui, cache_before>>

\* Lines 186-193 up to the sleep: progress is reported for chunk i.
FeatAfterResponse ==
    /\ progress' = Append(progress, <<i + 1, Len(id_chunks)>>)
    /\ pc' = "feat_sleep"

\* A 2xx response with the features member fs: extend, report progress.
FeatReceive(fs) ==
    /\ pc = "feat_await"
    /\ featResps' = Append(featResps, [kind |-> "ok", features |-> fs])
    /\ all_features' = all_features \o fs
    /\ FeatAfterResponse
    /\ UNCHANGED <<all_object_ids, offset, batch_count, id_chunks, i, handlerVars,
                   paramVars, procVars, idReqs, idResps, featReqs, events, ui, cache_before>>

\* The service sends the feature of every identifier of the chunk.
FeatPage ==
    /\ pc = "feat_await"
    /\ FeatReceive([j \in 1..Len(id_chunks[i + 1]) |-> Feature(id_chunks[i + 1][j])])

\* The service leaves out the feature of the chunk's last identifier.
FeatPartialPage ==
    /\ pc = "feat_await"
    /\ FeatReceive([j \in 1..(Len(id_chunks[i + 1]) - 1) |-> Feature(id_chunks[i + 1][j])])

\* A 2xx response without a features member: nothing is added.
FeatNoFeatures ==
    /\ pc = "feat_await"
    /\ featResps' = Append(featResps, [kind |-> "nokey", features |-> <<>>])
    /\ FeatAfterResponse
    /\ UNCHANGED <<clientVars, handlerVars, paramVars, procVars,
                   idReqs, idResps, featReqs, events, ui, cache_before>>

\* Mutant: a failed chunk ends the loop (break instead of continue).
FeatContinue_Break ==
    /\ i' = Len(id_chunks)
    /\ pc' = "feat_top"

\* The `continue` of both except clauses: on to the next chunk.
FeatContinue ==
    /\ i' = i + 1
    /\ pc' = "feat_top"

\* requests.exceptions.RequestException for this chunk.
FeatRequestException ==
    /\ pc = "feat_await"
    /\ featResps' = Append(featResps, [kind |-> "request_exception", features |-> <<>>])
    /\ ui' = Append(ui, "error:feat_fetch")
    /\ FeatContinue
    /\ UNCHANGED <<all_object_ids, offset, batch_count, id_chunks, all_features,
                   handlerVars, paramVars, procVars,
                   idReqs, idResps, featReqs, events, progress, cache_before>>

\* Any other exception while reading the chunk's response.
FeatOtherException ==
    /\ pc = "feat_await"
    /\ featResps' = Append(featResps, [kind |-> "exception", features |-> <<>>])
    /\ ui' = Append(ui, "error:feat_processing")
    /\ FeatContinue
    /\ UNCHANGED <<all_object_ids, offset, batch_count, id_chunks, all_features,
                   handlerVars, paramVars, procVars,
                   idReqs, idResps, featReqs, events, progress, cache_before>>

\* Mutant: the cadence is taken from the zero-based index.
FeatSleep_ZeroBased ==
    /\ pc = "feat_sleep"
    /\ events' = Append(events, IF i % 10 = 0 THEN "sleep5" ELSE "sleep1")
    /\ i' = i + 1
    /\ pc' = "feat_top"
    /\ UNCHANGED <<all_object_ids, offset, batch_count, id_chunks, all_features,
                   handlerVars, paramVars, procVars,
                   idReqs, idResps, featReqs, featResps, progress, ui, cache_before>>

\* time.sleep at the end of the try block, then the next iteration.
FeatSleep ==
    /\ pc = "feat_sleep"
    /\ events' = Append(events, IF (i + 1) % 10 = 0 THEN "sleep5" ELSE "sleep1")
    /\ i' = i + 1
    /\ pc' = "feat_top"
    /\ UNCHANGED <<all_object_ids, offset, batch_count, id_chunks, all_features,
                   handlerVars, paramVars, procVars,
                   idReqs, idResps, featReqs, featResps, progress, ui, cache_before>>

\* Mutant: None is returned when no chunk delivered a feature.
FeatReturn_NoneWhenEmpty ==
    /\ pc = "feat_top"
    /\ i >= Len(id_chunks)
    /\ IF local_file_loaded
         THEN /\ madison_data' = (IF all_features = <<>> THEN NoData
                                                        ELSE Collection(all_features))
              /\ UNCHANGED geojson_data
         ELSE /\ geojson_data' = (IF all_features = <<>> THEN NoData
                                                        ELSE Collection(all_features))
              /\ UNCHANGED madison_data
    /\ pc' = "feat_returned"
    /\ UNCHANGED <<clientVars, local_file_loaded, session_state, object_ids,
                   paramVars, procVars, histVars>>

\* The loop is over: the FeatureCollection is returned to the caller, which
\* names it madison_data (local-file branch) or geojson_data (other branch).
FeatReturn ==
    /\ pc = "feat_top"
    /\ i >= Len(id_chunks)
    /\ IF local_file_loaded
         THEN madison_data' = Collection(all_features) /\ UNCHANGED geojson_data
         ELSE geojson_data' = Collection(all_features) /\ UNCHANGED madison_data
    /\ pc' = "feat_returned"
    /\ UNCHANGED <<clientVars, local_file_loaded, session_state, object_ids,
                   paramVars, procVars, histVars>>

\* The caller's name for what get_features_by_ids returned.
FetchResult == IF local_file_loaded THEN madison_data ELSE geojson_data

\* `if madison_data and 'features' in madison_data`: success message and the
\* session cache is written (then st.rerun / line 334 reads it back);
\* otherwise "Failed to fetch feature data.".
HandlerStoreResult ==
    /\ pc = "feat_returned"
    /\ IF FetchResult.present
         THEN /\ ui' = Append(ui, "success:loaded")
              /\ session_state' = FetchResult
              /\ geojson_data' = FetchResult
         ELSE /\ ui' = Append(ui, "error:fetch_failed")
              /\ UNCHANGED <<session_state, geojson_data>>
    /\ pc' = "done"
    /\ UNCHANGED <<clientVars, local_file_loaded, object_ids, madison_data, paramVars,
                   procVars, idReqs, idResps, featReqs, featResps, events, progress, cache_before>>

\* ------------------------------------------------- specifications
IdsNext ==
    \/ IdsIssueRequest
    \/ IdsPage
    \/ IdsNoIds
    \/ IdsRequestException
    \/ IdsOtherException
    \/ IdsSleep
    \/ IdsReturn

FeatNext ==
    \/ FeatStart
    \/ FeatIssueRequest
    \/ FeatPage
    \/ FeatNoFeatures
    \/ FeatRequestException
    \/ FeatOtherException
    \/ FeatSleep
    \/ FeatReturn

Next ==
    \/ ClickLoad
    \/ IdsNext
    \/ HandlerNoIds
    \/ HandlerFetchFeatures
    \/ FeatNext
    \/ HandlerStoreResult

Spec == Init /\ [][Next]_vars

\* get_object_ids(batch_size=B) called on its own.
InitIds ==
    /\ pc = "ids_top"
    /\ local_file_loaded = FALSE
    /\ session_state = NoData
    /\ geojson_data = NoData
    /\ batch_size \in 1..MaxBatch
    /\ FEATURE_BATCH_SIZE = 1
    /\ service_size = MaxIds
    /\ object_ids = <<>>
    /\ filtered_df = <<>>
    /\ Untouched

NextIds == IdsNext \/ IdsRoguePage

SpecIds == InitIds /\ [][NextIds]_vars

\* get_object_ids(batch_size=B) against a service that holds service_size
\* identifiers and answers from the requested offset.  The call runs in the
\* single script thread and every request is answered or times out
\* (timeout=30), so a step that can be taken is eventually taken.
InitTerm ==
    /\ pc = "ids_top"
    /\ local_file_loaded = FALSE
    /\ session_state = NoData
    /\ geojson_data = NoData
    /\ batch_size \in 1..MaxBatch
    /\ FEATURE_BATCH_SIZE = 1
    /\ service_size \in 0..MaxIds
    /\ object_ids = <<>>
    /\ filtered_df = <<>>
    /\ Untouched

NextTerm ==
    \/ IdsIssueRequest
    \/ IdsBoundedPage
    \/ IdsNoIds
    \/ IdsRequestException
    \/ IdsOtherException
    \/ IdsSleep
    \/ IdsReturn

SpecTerm == InitTerm /\ [][NextTerm]_vars /\ WF_vars(NextTerm)

\* The button handler with both batch sizes 1 against a service of MaxPages
\* identifiers, so that both loops pass their tenth iteration; identifier
\* requests succeed, chunk requests succeed or fail.
InitDelay ==
    /\ pc = "idle"
    /\ local_file_loaded = TRUE
    /\ session_state = Collection(<<>>)
    /\ geojson_data = session_state
    /\ batch_size = 1
    /\ FEATURE_BATCH_SIZE = 1
    /\ service_size = MaxPages
    /\ object_ids = <<>>
    /\ filtered_df = <<>>
    /\ Untouched

NextDelay ==
    \/ ClickLoad
    \/ IdsIssueRequest
    \/ IdsPage
    \/ IdsNoIds
    \/ IdsSleep
    \/ IdsReturn
    \/ HandlerNoIds
    \/ HandlerFetchFeatures
    \/ FeatStart
    \/ FeatIssueRequest
    \/ FeatPage
    \/ FeatRequestException
    \/ FeatSleep
    \/ FeatReturn
    \/ HandlerStoreResult

SpecDelay == InitDelay /\ [][NextDelay]_vars

\* The identifier lists get_features_by_ids is called with: the first M
\* identifiers of the service, or such a list followed by a repetition.
FeatInputs ==
    { ids \in { Slice(0, a) \o Slice(0, b) : a \in 0..MaxIds, b \in 0..1 } :
        Len(ids) <= MaxIds }

\* get_features_by_ids(object_ids) called on its own.
InitFeat ==
    /\ pc = "feat_call"
    /\ local_file_loaded = TRUE
    /\ session_state = NoData
    /\ geojson_data = NoData
    /\ batch_size = 1
    /\ FEATURE_BATCH_SIZE \in 1..MaxChunk
    /\ service_size = MaxIds
    /\ object_ids \in FeatInputs
    /\ filtered_df = <<>>
    /\ Untouched

NextFeat == FeatNext \/ FeatPartialPage

SpecFeat == InitFeat /\ [][NextFeat]_vars

\* ------------------------------------------------- process_geojson_data
\* JSON values: <<tag, n>>.  The value a feature of variant v stores under
\* key k is <<k, v>>, so a normalized field shows which key it came from.
None == <<"None", 0>>
Unknown == <<"Unknown", 0>>
Zero == <<"0", 0>>

Keys == {"DIAMETER", "diameter", "SPP_COM", "species_common", "SPP_BOT",
         "species_botanical", "STATUS", "status", "site_id", "OBJECTID", "object_id"}
UpperKeys == {"DIAMETER", "SPP_COM", "SPP_BOT", "STATUS", "site_id", "OBJECTID"}
LowerKeys == {"diameter", "species_common", "species_botanical", "status", "object_id"}

\* Mutant: a key holding null counts as absent (`d.get(key) or default`).
DictGet_NullAsAbsent(d, key, default) ==
    IF key \in DOMAIN d /\ d[key] # None THEN d[key] ELSE default

\* dict.get(key, default)
DictGet(d, key, default) == IF key \in DOMAIN d THEN d[key] ELSE default

\* feature['properties'], feature['geometry']['coordinates'], coords[0] and
\* coords[1] raise (KeyError, TypeError, AttributeError, IndexError) unless
\* every member is there and the list has two items.
Raises(feature) ==
    \/ feature.properties.kind # "dict"
    \/ feature.geometry.kind # "dict"
    \/ feature.geometry.coordinates.kind # "list"
    \/ Len(feature.geometry.coordinates.items) < 2

\* The dict appended for a feature (lines 44-53).
Row(feature) ==
    LET props == feature.properties.map
        coords == feature.geometry.coordinates.items
    IN [longitude |-> coords[1],
        latitude |-> coords[2],
        diameter |-> DictGet(props, "DIAMETER", DictGet(props, "diameter", Zero)),
        species_common |-> DictGet(props, "SPP_COM", DictGet(props, "species_common", Unknown)),
        species_botanical |-> DictGet(props, "SPP_BOT", DictGet(props, "species_botanical", Unknown)),
        status |-> DictGet(props, "STATUS", DictGet(props, "status", Unknown)),
        site_id |-> DictGet(props, "site_id", DictGet(props, "OBJECTID", Unknown)),
        object_id |-> DictGet(props, "OBJECTID", DictGet(props, "object_id", None))]

\* Line 364-367: geojson_data is not None, process_geojson_data is called.
ProcStart ==
    /\ pc = "proc_call"
    /\ geojson_data.present
    /\ features' = <<>>
    /\ feature_idx' = 0
    /\ pc' = "proc_loop"
    /\ UNCHANGED <<clientVars, handlerVars, paramVars, df, filtered_df, histVars>>

\* Mutant: a feature whose OBJECTID was already seen adds no row.
ProcAppend_Dedup ==
    /\ pc = "proc_loop"
    /\ feature_idx < Len(geojson_data.features)
    /\ ~Raises(geojson_data.features[feature_idx + 1])
    /\ features' =
         IF \E r \in 1..Len(features) :
                features[r].object_id = Row(geojson_data.features[feature_idx + 1]).object_id
           THEN features
           ELSE Append(features, Row(geojson_data.features[feature_idx + 1]))
    /\ feature_idx' = feature_idx + 1
    /\ UNCHANGED <<pc, clientVars, handlerVars, paramVars, df, filtered_df, histVars>>

\* One iteration of the for loop on a feature nothing raises for.
ProcAppend ==
    /\ pc = "proc_loop"
    /\ feature_idx < Len(geojson_data.features)
    /\ ~Raises(geojson_data.features[feature_idx + 1])
    /\ features' = Append(features, Row(geojson_data.features[feature_idx + 1]))
    /\ feature_idx' = feature_idx + 1
    /\ UNCHANGED <<pc, clientVars, handlerVars, paramVars, df, filtered_df, histVars>>

\* An iteration raises: the exception leaves process_geojson_data and is
\* caught by the processing block (line 474), which shows an error.
ProcRaise ==
    /\ pc = "proc_loop"
    /\ feature_idx < Len(geojson_data.features)
    /\ Raises(geojson_data.features[feature_idx + 1])
    /\ ui' = Append(ui, "error:processing_data")
    /\ pc' = "proc_failed"
    /\ UNCHANGED <<clientVars, handlerVars, paramVars, procVars,
                   idReqs, idResps, featReqs, featResps, events, progress, cache_before>>

\* return pd.DataFrame(features), assigned to df.
ProcReturn ==
    /\ pc = "proc_loop"
    /\ feature_idx >= Len(geojson_data.features)
    /\ df' = [made |-> TRUE, rows |-> features]
    /\ pc' = "proc_returned"
    /\ UNCHANGED <<clientVars, handlerVars, paramVars, features, feature_idx,
                   filtered_df, histVars>>

\* --- the collections process_geojson_data is given
Geometry(kind, ckind, items) ==
    [kind |-> kind, coordinates |-> [kind |-> ckind, items |-> items]]
Coords(v) == <<0 - (88 + v), 42 + v>>
GoodGeometry(v) == Geometry("dict", "list", Coords(v))
BadGeometries ==
    { Geometry("missing", "missing", <<>>), Geometry("null", "missing", <<>>),
      Geometry("dict", "missing", <<>>), Geometry("dict", "null", <<>>),
      Geometry("dict", "list", <<>>), Geometry("dict", "list", <<-89>>) }

\* The properties of variant v with the keys D, the keys in nulls holding
\* JSON null, and OBJECTID (if a key) holding oid.
Props(D, nulls, v, oid) ==
    [kind |-> "dict",
     map |-> [k \in D |-> IF k \in nulls THEN None
                          ELSE IF k = "OBJECTID" THEN <<k, oid>> ELSE <<k, v>>]]
BadProps == { [kind |-> "missing", map |-> <<>>], [kind |-> "null", map |-> <<>>] }

RawFeature(props, geometry) == [properties |-> props, geometry |-> geometry]

\* Single features: every set of keys, at most one of them null.
WideFeatures ==
    { RawFeature(Props(D, nulls, 1, 1), GoodGeometry(1)) :
        D \in SUBSET Keys, nulls \in {{}} \cup {{k} : k \in Keys} }

\* Features for longer collections: well-formed ones (two sharing an
\* OBJECTID, one with three coordinates) and malformed ones.
FewFeatures ==
    { RawFeature(Props(UpperKeys, {}, 1, 1), GoodGeometry(1)),
      RawFeature(Props(UpperKeys, {}, 2, 1), GoodGeometry(2)),
      RawFeature(Props(LowerKeys, {}, 3, 3), Geometry("dict", "list", <<-91, 45, 260>>)),
      RawFeature(Props({}, {}, 1, 1), GoodGeometry(1)) }
    \cup { RawFeature(Props(UpperKeys, {}, 4, 4), g) : g \in BadGeometries }
    \cup { RawFeature(p, GoodGeometry(5)) : p \in BadProps }

SeqsUpTo(S, n) == UNION { [1..m -> S] : m \in 0..n }

ProcInputs ==
    { <<f>> : f \in WideFeatures } \cup SeqsUpTo(FewFeatures, MaxFeatures)

\* The processing block is reached with some collection in geojson_data.
InitProc ==
    /\ pc = "proc_call"
    /\ local_file_loaded = TRUE
    /\ \E fs \in ProcInputs : geojson_data = Collection(fs)
    /\ session_state = geojson_data
    /\ batch_size = 1
    /\ FEATURE_BATCH_SIZE = 1
    /\ service_size = MaxIds
    /\ object_ids = <<>>
    /\ filtered_df = <<>>
    /\ Untouched

NextProc ==
    \/ ProcStart
    \/ ProcAppend
    \/ ProcRaise
    \/ ProcReturn

SpecProc == InitProc /\ [][NextProc]_vars

\* ------------------------------------------------- calculate_protection_radius
\* Lengths are counted in units of 1/Resolution (inch for diameters, foot
\* for radii), so that 5.0 is 5 * Resolution.

\* Mutant: the five inches already covered by the minimum are not taken off.
calculate_protection_radius_NoOffset(diameter) ==
    IF diameter <= 5 * Resolution
      THEN 5 * Resolution
      ELSE 5 * Resolution + diameter

\* calculate_protection_radius(diameter)
calculate_protection_radius(diameter) ==
    IF diameter <= 5 * Resolution
      THEN 5 * Resolution
      ELSE 5 * Resolution + (diameter - 5 * Resolution)

\* Line 376: filtered_df['diameter'].apply(calculate_protection_radius)
\* fills the protection_radius_feet column.
ApplyRadius ==
    /\ pc = "radius_call"
    /\ filtered_df' =
         [j \in 1..Len(filtered_df) |->
            [diameter |-> filtered_df[j].diameter,
             has_radius |-> TRUE,
             protection_radius_feet |->
                 calculate_protection_radius(filtered_df[j].diameter)]]
    /\ pc' = "radius_done"
    /\ UNCHANGED <<clientVars, handlerVars, paramVars, features, feature_idx, df, histVars>>

\* The diameters of the grid, from one inch below zero.
DiameterGrid == (0 - Resolution)..(MaxDiameter * Resolution)

\* The diameter columns the policy is applied to.
RadiusInputs ==
    UNION { [1..m -> { [diameter |-> d, has_radius |-> FALSE,
                        protection_radius_feet |-> 0] : d \in DiameterGrid }] :
            m \in 1..MaxRows }

\* The processing block has filtered the frame and is about to apply the policy.
InitRadius ==
    /\ pc = "radius_call"
    /\ local_file_loaded = TRUE
    /\ session_state = NoData
    /\ geojson_data = NoData
    /\ batch_size = 1
    /\ FEATURE_BATCH_SIZE = 1
    /\ service_size = MaxIds
    /\ object_ids = <<>>
    /\ filtered_df \in RadiusInputs
    /\ Untouched

NextRadius == ApplyRadius

SpecRadius == InitRadius /\ [][NextRadius]_vars

(***************************************************************************)
(* Properties of get_object_ids (SpecIds)                                  *)
(***************************************************************************)
RECURSIVE ConcatIds(_)
\* The identifiers of a sequence of responses, in arrival order.
ConcatIds(resps) ==
    IF resps = <<>> THEN <<>>
    ELSE ConcatIds(SubSeq(resps, 1, Len(resps) - 1)) \o resps[Len(resps)].ids

IdsFailed(r) == r.kind \in {"request_exception", "exception"}

\* Every request so far was answered, and answered as a service holding N
\* identifiers answers: at offset o, the identifiers at positions o+1 ..
\* o+batch_size as far as they exist, and no identifiers once o = N.
HonestFor(N) ==
    /\ Len(idResps) = Len(idReqs)
    /\ \A j \in 1..Len(idReqs) :
         /\ idReqs[j] <= N
         /\ IF idReqs[j] = N
              THEN idResps[j].kind \in {"ok", "nokey"} /\ idResps[j].ids = <<>>
              ELSE /\ idResps[j].kind = "ok"
                   /\ idResps[j].ids = Slice(idReqs[j], Min(batch_size, N - idReqs[j]))

\* C1: against a service that holds N identifiers and pages them faithfully,
\* get_object_ids returns exactly the N identifiers in order and has issued
\* ceil(N/B) requests when B does not divide N, and N/B + 1 when it does.
C1_HonestPagination ==
    \A N \in 0..MaxIds :
        (pc = "ids_returned" /\ HonestFor(N)) =>
            /\ object_ids = Slice(0, N)
            /\ Len(idReqs) = IF N % batch_size = 0
                               THEN (N \div batch_size) + 1
                               ELSE (N + batch_size - 1) \div batch_size

\* C1 witness: a faithful run of full pages followed by a short one.
C1_Witness ==
    /\ pc = "ids_returned"
    /\ \E N \in 1..MaxIds :
         HonestFor(N) /\ N > batch_size /\ N % batch_size # 0

\* C2: a request other than the first is issued only after a response with
\* at least batch_size identifiers; after a short page, an empty or absent
\* objectIds, or a failure, the call issues no request any more.
C2_StopAfterShortPage ==
    /\ Len(idReqs) - Len(idResps) \in {0, 1}
    /\ \A j \in 2..Len(idReqs) :
         /\ idResps[j - 1].kind = "ok"
         /\ Len(idResps[j - 1].ids) >= batch_size

\* C2 witness: the call has returned after a failure of a later request.
C2_Witness ==
    /\ pc = "ids_returned"
    /\ Len(idReqs) >= 2
    /\ idResps[Len(idResps)].kind = "request_exception"

\* C3: when the call ends on a failed request, what it returns is exactly
\* what the earlier pages delivered, in order.
C3_FailureKeepsAccumulated ==
    (pc = "ids_returned" /\ IdsFailed(idResps[Len(idResps)])) =>
        /\ object_ids = ConcatIds(SubSeq(idResps, 1, Len(idResps) - 1))
        /\ (Len(idResps) = 1 => object_ids = <<>>)

\* C3 witness: a failure after at least one page.
C3_Witness ==
    /\ pc = "ids_returned"
    /\ idResps[Len(idResps)].kind = "request_exception"
    /\ object_ids # <<>>

(***************************************************************************)
(* Properties of the handler (Spec) and of get_features_by_ids (SpecFeat)  *)
(***************************************************************************)
\* The identifier phase ended on a failed request.
IdsAborted == idResps # <<>> /\ IdsFailed(idResps[Len(idResps)])

\* C4: a list that get_object_ids returned after a failed request is not
\* taken for a complete one: the handler never ends such a retrieval, even
\* one whose feature requests all succeeded, with the success message and
\* the result stored in the session cache.
C4_PartialNeverTreatedAsComplete ==
    ~ ( /\ pc = "done"
        /\ IdsAborted
        /\ object_ids # <<>>
        /\ \A j \in 1..Len(featResps) : featResps[j].kind = "ok"
        /\ ui[Len(ui)] = "success:loaded"
        /\ session_state = FetchResult )

RECURSIVE Flatten(_)
\* The concatenation of a sequence of sequences.
Flatten(ss) ==
    IF ss = <<>> THEN <<>>
    ELSE Flatten(SubSeq(ss, 1, Len(ss) - 1)) \o ss[Len(ss)]

RECURSIVE FlattenOk(_)
\* The features of the responses that were 2xx with a features member.
FlattenOk(resps) ==
    IF resps = <<>> THEN <<>>
    ELSE FlattenOk(SubSeq(resps, 1, Len(resps) - 1)) \o
         (IF resps[Len(resps)].kind = "ok" THEN resps[Len(resps)].features ELSE <<>>)

CeilDiv(m, c) == (m + c - 1) \div c

\* C5: the chunks requested so far are non-empty, hold at most
\* FEATURE_BATCH_SIZE identifiers and are, one after the other, a prefix of
\* the input (contiguous, in order, no position twice); when the call
\* returns they are ceil(M/C) and cover the whole input, whatever the
\* outcome of each request.
C5_ChunkRequests ==
    /\ \A j \in 1..Len(featReqs) : Len(featReqs[j]) \in 1..FEATURE_BATCH_SIZE
    /\ Flatten(featReqs) = SubSeq(object_ids, 1, Len(Flatten(featReqs)))
    /\ pc = "feat_returned" =>
         /\ Len(featReqs) = CeilDiv(Len(object_ids), FEATURE_BATCH_SIZE)
         /\ Flatten(featReqs) = object_ids

\* C5 witness: several chunks, the last one short, one request failed.
C5_Witness ==
    /\ pc = "feat_returned"
    /\ Len(featReqs) >= 2
    /\ Len(object_ids) % FEATURE_BATCH_SIZE # 0
    /\ \E j \in 1..Len(featResps) : featResps[j].kind = "request_exception"

\* C6: the collection returned is the concatenation, in chunk order, of the
\* features of the chunks whose request succeeded, and every chunk has been
\* requested, those after a failed one included.
C6_FailedChunkSkipped ==
    pc = "feat_returned" =>
        /\ FetchResult = Collection(FlattenOk(featResps))
        /\ Len(featResps) = Len(featReqs)
        /\ Len(featReqs) = CeilDiv(Len(object_ids), FEATURE_BATCH_SIZE)

\* C6 witness: a failed chunk followed by one that contributed features.
C6_Witness ==
    /\ pc = "feat_returned"
    /\ \E j \in 1..(Len(featResps) - 1) :
         /\ featResps[j].kind \in {"request_exception", "exception"}
         /\ featResps[j + 1].kind = "ok"
         /\ featResps[j + 1].features # <<>>
    /\ FetchResult.features # <<>>

\* C7 as stated: with no identifiers no feature request is issued and the
\* retrieval yields an empty FeatureCollection.
C7_EmptyIdsYieldEmptyCollection ==
    (pc = "done" /\ object_ids = <<>>) =>
        /\ featReqs = <<>>
        /\ geojson_data = Collection(<<>>)

\* C7 amended: with no identifiers no feature request is issued,
\* get_features_by_ids is not called, and no collection is produced: the
\* handler shows the warning and geojson_data and the session cache keep the
\* value they had.
C7_EmptyIdsNoFetchNoResult ==
    (pc = "done" /\ object_ids = <<>>) =>
        /\ featReqs = <<>>
        /\ id_chunks = <<>> /\ progress = <<>>
        /\ madison_data = NoData
        /\ geojson_data = cache_before
        /\ session_state = cache_before
        /\ ui[Len(ui)] = "warning:no_object_ids"

\* C7 witness: no identifiers while the session held a non-empty collection.
C7_Witness ==
    /\ pc = "done"
    /\ object_ids = <<>>
    /\ cache_before.present
    /\ cache_before.features # <<>>

(***************************************************************************)
(* Properties of process_geojson_data (SpecProc)                           *)
(***************************************************************************)
\* A feature with a properties object and a coordinate list of two or more.
WellFormed(f) ==
    /\ f.properties.kind = "dict"
    /\ f.geometry.kind = "dict"
    /\ f.geometry.coordinates.kind = "list"
    /\ Len(f.geometry.coordinates.items) >= 2

\* C8: a collection of k well-formed features gives a frame of k rows, row j
\* made from feature j, features sharing an OBJECTID included.
C8_OneRowPerFeature ==
    (\A j \in 1..Len(geojson_data.features) : WellFormed(geojson_data.features[j])) =>
        /\ pc # "proc_failed"
        /\ pc = "proc_loop" => Len(features) = feature_idx
        /\ pc = "proc_returned" =>
             /\ df.made
             /\ Len(df.rows) = Len(geojson_data.features)
             /\ \A j \in 1..Len(df.rows) :
                  /\ df.rows[j] = Row(geojson_data.features[j])
                  /\ df.rows[j].longitude = geojson_data.features[j].geometry.coordinates.items[1]
                  /\ df.rows[j].latitude = geojson_data.features[j].geometry.coordinates.items[2]

\* C8 witness: two different features with the same OBJECTID, two rows.
C8_Witness ==
    /\ pc = "proc_returned"
    /\ Len(df.rows) >= 2
    /\ df.rows[1].object_id = df.rows[2].object_id
    /\ df.rows[1].object_id # None
    /\ df.rows[1] # df.rows[2]

\* C9: once processing has ended, every well-formed feature of the
\* collection has its record in the output, whatever the other features
\* look like.
C9_MalformedFeatureIsolated ==
    pc \in {"proc_returned", "proc_failed"} =>
        \A j \in 1..Len(geojson_data.features) :
            WellFormed(geojson_data.features[j]) =>
                \E r \in 1..Len(df.rows) : df.rows[r] = Row(geojson_data.features[j])

\* The value of the first of two keys that is present, else the default.
FirstPresent(props, k1, k2, default) ==
    IF k1 \in DOMAIN props THEN props[k1]
    ELSE IF k2 \in DOMAIN props THEN props[k2]
    ELSE default

\* C10: every row built takes each field from the first candidate key that
\* is present in the feature's properties, else the default; without
\* DIAMETER and diameter the diameter is 0, without site_id and OBJECTID the
\* site_id is "Unknown".
C10_FallbackChains ==
    \A j \in 1..Len(features) :
        LET props == geojson_data.features[j].properties.map
            row == features[j]
        IN /\ row.diameter = FirstPresent(props, "DIAMETER", "diameter", <<"0", 0>>)
           /\ row.species_common =
                FirstPresent(props, "SPP_COM", "species_common", <<"Unknown", 0>>)
           /\ row.species_botanical =
                FirstPresent(props, "SPP_BOT", "species_botanical", <<"Unknown", 0>>)
           /\ row.status = FirstPresent(props, "STATUS", "status", <<"Unknown", 0>>)
           /\ row.site_id = FirstPresent(props, "site_id", "OBJECTID", <<"Unknown", 0>>)
           /\ row.object_id = FirstPresent(props, "OBJECTID", "object_id", <<"None", 0>>)
           /\ ({"DIAMETER", "diameter"} \cap DOMAIN props = {}) => row.diameter = <<"0", 0>>
           /\ ({"site_id", "OBJECTID"} \cap DOMAIN props = {}) =>
                row.site_id = <<"Unknown", 0>>

\* C10 witness: a row from a feature without DIAMETER, diameter, site_id and
\* OBJECTID, with a fallback key used and with both keys of a pair present.
C10_Witness ==
    /\ pc = "proc_returned"
    /\ Len(df.rows) = 1
    /\ LET D == DOMAIN geojson_data.features[1].properties.map
       IN /\ {"DIAMETER", "diameter", "site_id", "OBJECTID", "SPP_COM"} \cap D = {}
          /\ {"species_common", "STATUS", "status", "object_id"} \subseteq D
    /\ df.rows[1].diameter = <<"0", 0>>
    /\ df.rows[1].site_id = <<"Unknown", 0>>
    /\ df.rows[1].species_common = <<"species_common", 1>>
    /\ df.rows[1].status = <<"STATUS", 1>>

(***************************************************************************)
(* Properties of calculate_protection_radius (SpecRadius)                  *)
(***************************************************************************)
\* C11: the radius column holds 5 for every diameter up to 5 and
\* 5 + (d - 5) above; it is never below 5, never decreases with the
\* diameter, strictly increases above 5, is 5 at diameter 5 whichever branch
\* computes it, and is 6 for diameter 6.
C11_RadiusPolicy ==
    pc = "radius_done" =>
        \A j \in 1..Len(filtered_df) :
            LET d == filtered_df[j].diameter
                r == filtered_df[j].protection_radius_feet
            IN /\ filtered_df[j].has_radius
               /\ d <= 5 * Resolution => r = 5 * Resolution
               /\ d > 5 * Resolution => r = 5 * Resolution + (d - 5 * Resolution)
               /\ r >= 5 * Resolution
               /\ d = 5 * Resolution => r = 5 * Resolution + (d - 5 * Resolution)
               /\ d = 6 * Resolution => r = 6 * Resolution
               /\ \A k \in 1..Len(filtered_df) :
                    LET d2 == filtered_df[k].diameter
                        r2 == filtered_df[k].protection_radius_feet
                    IN /\ d <= d2 => r <= r2
                       /\ (5 * Resolution < d /\ d < d2) => r < r2

\* C11 witness: a column with a diameter below and one above 5 inches.
C11_Witness ==
    /\ pc = "radius_done"
    /\ Len(filtered_df) = 2
    /\ filtered_df[1].diameter < 5 * Resolution
    /\ filtered_df[2].diameter = 6 * Resolution
    /\ filtered_df[1].protection_radius_feet = 5 * Resolution
    /\ filtered_df[2].protection_radius_feet = 6 * Resolution

(***************************************************************************)
(* Delays, terminal state, malformed responses, progress (Spec, SpecFeat)  *)
(***************************************************************************)
IsRequest(e) == e \in {"ids_request", "feat_request"}
IsSleep(e) == e \in {"sleep1", "sleep5"}

\* C12: no two HTTP requests of a retrieval follow each other without a
\* delay in between, across the two phases and after failed chunks too.
C12_DelayBetweenRequests ==
    \A j \in 1..(Len(events) - 1) :
        IsRequest(events[j]) => ~IsRequest(events[j + 1])

FeatFailed(r) == r.kind \in {"request_exception", "exception"}

\* Some identifier request or some chunk request of the retrieval failed.
AnyRequestFailed ==
    \/ \E j \in 1..Len(idResps) : IdsFailed(idResps[j])
    \/ \E j \in 1..Len(featResps) : FeatFailed(featResps[j])

\* C13: a retrieval in which a request failed does not end like one in which
\* every request succeeded: it is not reported with the success message and
\* its collection is not cached as the complete result.
C13_FailedRetrievalToldApart ==
    (pc = "done" /\ AnyRequestFailed) =>
        ~ ( /\ ui[Len(ui)] = "success:loaded"
            /\ session_state = Collection(all_features) )

IsError(m) ==
    m \in {"error:ids_fetch", "error:ids_processing", "error:feat_fetch",
           "error:feat_processing", "error:fetch_failed", "error:processing_data"}

\* The number of responses in resps that satisfy Test.
Count(resps, Test(_)) == Cardinality({j \in 1..Len(resps) : Test(resps[j])})

\* A failed request, or a 2xx response without the expected member.
FailedOrMalformed(r) == r.kind \in {"request_exception", "exception", "nokey"}

\* C14: a 2xx response without objectIds / without features is handled like
\* a failed request: it is reported as an error, and in the feature phase it
\* reports no progress and is followed by no delay, as a failed chunk is.
C14_MalformedLikeFailure ==
    /\ Len(SelectSeq(ui, IsError)) >=
         Count(idResps, FailedOrMalformed) + Count(featResps, FailedOrMalformed)
    /\ pc \in {"feat_top", "feat_returned", "done"} =>
         /\ Len(progress) = Len(featResps) - Count(featResps, FailedOrMalformed)
         /\ Len(SelectSeq(events, IsSleep)) =
              batch_count + Len(featResps) - Count(featResps, FailedOrMalformed)

\* C15: after chunk i of T has been handled, successfully or not, the last
\* progress value is i/T; the values never decrease; the last value reported
\* before the call returns is T/T whenever T > 0.
C15_ProgressAfterEachChunk ==
    /\ (pc = "feat_top" /\ i >= 1) =>
         /\ progress # <<>>
         /\ progress[Len(progress)] = <<i, Len(id_chunks)>>
    /\ \A j \in 1..(Len(progress) - 1) :
         progress[j][1] * progress[j + 1][2] <= progress[j + 1][1] * progress[j][2]
    /\ (pc = "feat_returned" /\ Len(id_chunks) > 0) =>
         /\ progress # <<>>
         /\ progress[Len(progress)] = <<Len(id_chunks), Len(id_chunks)>>

\* C16: the resultOffset of every identifier request is the number of
\* identifiers accumulated when it is issued, whatever the sizes of the
\* pages before it, and the offsets strictly increase.
C16_OffsetIsAccumulatedCount ==
    /\ pc = "ids_await" => idReqs[Len(idReqs)] = Len(all_object_ids)
    /\ \A j \in 1..Len(idReqs) :
         idReqs[j] = Len(ConcatIds(SubSeq(idResps, 1, j - 1)))
    /\ \A j \in 1..(Len(idReqs) - 1) : idReqs[j] < idReqs[j + 1]

\* C16 witness: a request issued after a page larger than batch_size.
C16_Witness ==
    /\ pc = "ids_await"
    /\ Len(idReqs) >= 2
    /\ Len(idResps[Len(idResps)].ids) > batch_size
    /\ idReqs[Len(idReqs)] = Len(all_object_ids)

(***************************************************************************)
(* Delay cadence (SpecDelay)                                               *)
(***************************************************************************)
\* The number of events of kind e among the first j events.
EventsUpTo(j, e) == Cardinality({m \in 1..j : events[m] = e})

\* C17: every delay directly follows a request and is the only delay that
\* follows it; the delay after the k-th identifier page, and after the k-th
\* chunk counted over all chunks, is the long one exactly when k is a
\* multiple of 10.
C17_DelayCadence ==
    \A j \in 1..Len(events) :
        IsSleep(events[j]) =>
            /\ j > 1
            /\ IsRequest(events[j - 1])
            /\ (events[j] = "sleep5") <=> (EventsUpTo(j, events[j - 1]) % 10 = 0)

\* C17 witness: a long delay in each phase, the one of the feature phase
\* after a tenth chunk that follows a failed one.
C17_Witness ==
    /\ \E j \in 2..Len(events) :
         events[j] = "sleep5" /\ events[j - 1] = "ids_request"
    /\ \E j \in 2..Len(events) :
         events[j] = "sleep5" /\ events[j - 1] = "feat_request"
    /\ Len(featResps) >= 10
    /\ \E j \in 1..9 : FeatFailed(featResps[j])

(***************************************************************************)
(* Termination of get_object_ids (SpecTerm)                                *)
(***************************************************************************)
\* C18: against a service that holds N identifiers and answers from the
\* requested offset, get_object_ids returns, and it has then issued at most
\* floor(N / batch_size) + 1 requests.
C18_ReturnsWithinBound ==
    /\ [](Len(idReqs) <= (service_size \div batch_size) + 1)
    /\ <>(pc = "ids_returned")

\* C18 witness: a call that returned after exactly floor(N / B) + 1 requests,
\* more than one of them.
C18_Witness ==
    /\ pc = "ids_returned"
    /\ Len(idReqs) = (service_size \div batch_size) + 1
    /\ Len(idReqs) >= 2
    /\ Len(all_object_ids) = service_size

(***************************************************************************)
(* What the handler stores (Spec)                                          *)
(***************************************************************************)
\* C19: get_features_by_ids always hands back a collection with a features
\* field, so a retrieval with identifiers always ends on the success path
\* with that collection in the session cache; the "Failed to fetch feature
\* data" message is never shown; when every chunk failed the collection
\* stored is empty, whatever was cached before.
C19_AlwaysSuccessPath ==
    /\ \A j \in 1..Len(ui) : ui[j] # "error:fetch_failed"
    /\ pc = "feat_returned" => FetchResult.present
    /\ (pc = "done" /\ object_ids # <<>>) =>
         /\ ui[Len(ui)] = "success:loaded"
         /\ session_state = Collection(FlattenOk(featResps))
         /\ geojson_data = session_state
         /\ (\A j \in 1..Len(featResps) : FeatFailed(featResps[j])) =>
                session_state = Collection(<<>>)

\* C19 witness: every chunk failed and the empty collection has replaced
\* cached features.
C19_Witness ==
    /\ pc = "done"
    /\ object_ids # <<>>
    /\ \A j \in 1..Len(featResps) : FeatFailed(featResps[j])
    /\ cache_before.present
    /\ cache_before.features # <<>>
    /\ session_state = Collection(<<>>)
    /\ ui[Len(ui)] = "success:loaded"

\* C20: a step changes the session cache only when the feature phase has
\* returned, and the step that ends a retrieval without identifiers leaves
\* the cache as it was.
C20_CacheWrittenOnlyAfterFeatures ==
    [][ /\ session_state' # session_state => pc = "feat_returned"
        /\ (pc' = "done" /\ object_ids = <<>>) => session_state' = cache_before
      ]_vars

\* C20 witness: the first identifier request failed and the retrieval has
\* ended with the cache it started with.
C20_Witness ==
    /\ pc = "done"
    /\ Len(idResps) = 1
    /\ IdsFailed(idResps[1])
    /\ featReqs = <<>>
    /\ cache_before.present
    /\ session_state = cache_before

====
